---- MODULE Spec2Model ----
(***************************************************************************)
(* Model of service/service.go: the Service goroutines (Start, listen,     *)
(* mux, watchSignals, the doneChan drainer, the serving tasks) and the     *)
(* public triggers Register, Unregister and Shutdown.                      *)
(*                                                                         *)
(* Every goroutine has a position in pc.  registeredChan and               *)
(* connectionChan are unbuffered: a sender waits at its send position      *)
(* until mux takes the value, and the two move in one step.  doneChan has  *)
(* capacity 1.  Shutdown reads shuttingDown in one step and writes it in   *)
(* another: the two are not synchronised in the code, and every outcome of *)
(* that race is a behaviour of the model.                                  *)
(***************************************************************************)
EXTENDS Integers, FiniteSets, Sequences, TLC

\* ---- bounds of the model ------------------------------------------------
MaxConns   == 2     \* connections the listener accepts
MaxCalls   == 1     \* calls of the public API the external caller makes

\* ---- program constants --------------------------------------------------
DoneChanCap == 1    \* make(chan bool, 1)

Callers  == {"c1"}                       \* goroutines calling the public API
Closers  == {"c2"}                       \* goroutines that only call Shutdown()
Shutters == {"sig"} \cup Callers \cup Closers  \* all that can run Shutdown()
Procs    == {"main", "listen", "mux", "drain"} \cup Shutters
Conns    == 1..MaxConns

DirOps == {"Add", "Register", "Unregister", "Remove"}
CbOps  == {"Started", "Stopped", "Registered", "Unregistered"}

VARIABLES
  pc,             \* position of every goroutine
  registerOnBoot, \* the argument of Start(register)
  Registered,     \* s.Registered (skynet.ServiceInfo)
  shuttingDown,   \* s.shuttingDown
  bindWait,       \* counter of the bindWait WaitGroup of Start
  doneGroup,      \* counter of s.doneGroup
  doneChan,       \* number of values buffered in s.doneChan
  activeRequests, \* counter of s.activeRequests
  conn,           \* per connection: state, handshake sent, client id
  ClientInfo,     \* s.ClientInfo: client id -> connection (its address)
  muxConn,        \* the connection mux is handling (0: none)
  muxTog,         \* the toggle mux has received and is processing
  muxTakenAt,     \* history: lastToggle when mux took muxConn
  listenConn,     \* the connection listen holds for connectionChan (0: none)
  inReq,          \* connections with an RPC request in flight
  dirErr,         \* history: whether the last directory Register or
                  \* Unregister call returned an error
  calls,          \* number of directory calls and delegate callbacks made
  callsLeft,      \* calls the external callers may still make
  lastToggle,     \* history: value of the last toggle mux finished processing
  waitSet         \* history: per Shutdown, the requests in flight when it
                  \* began to wait, and 0 once one of them is answered

vars == <<pc, registerOnBoot, Registered, shuttingDown, bindWait, doneGroup,
          doneChan, activeRequests, conn, ClientInfo, muxConn, muxTog,
          muxTakenAt, listenConn, inReq, dirErr, calls, callsLeft, lastToggle,
          waitSet>>

NoConn == [state |-> "none", hsSent |-> FALSE, hsRegistered |-> FALSE,
           clientID |-> 0]

\* skynet.UUID(): a fresh identifier, different from all handed out before.
UUID == Cardinality(DOMAIN ClientInfo) + 1

\* CreateService: the state before Start is called.
Init ==
  /\ pc = [p \in Procs |-> IF p = "main" THEN "start" ELSE "notStarted"]
  /\ registerOnBoot \in BOOLEAN
  /\ Registered = FALSE
  /\ shuttingDown = FALSE
  /\ bindWait = 0
  /\ doneGroup = 0
  /\ doneChan = 0
  /\ activeRequests = 0
  /\ conn = [c \in Conns |-> NoConn]
  /\ ClientInfo = << >>
  /\ muxConn = 0
  /\ muxTog = FALSE
  /\ muxTakenAt = FALSE
  /\ listenConn = 0
  /\ inReq = {}
  /\ dirErr = FALSE
  /\ calls = [o \in DirOps \cup CbOps |-> 0]
  /\ callsLeft = MaxCalls
  /\ lastToggle = FALSE
  /\ waitSet = [t \in Shutters |-> {}]

\* A panic in listen ends the whole process (lines 195, 208): every
\* goroutine is dead and the memory of the service is gone; what is left is
\* what the process did to the outside, the directory calls and callbacks made.
Alive == pc["listen"] \notin {"bindPanic", "acceptPanic"}

Panic(where) ==
  /\ pc' = [p \in Procs |-> IF p = "listen" THEN where ELSE "dead"]
  /\ Registered' = FALSE
  /\ shuttingDown' = FALSE
  /\ bindWait' = 0
  /\ doneGroup' = 0
  /\ doneChan' = 0
  /\ activeRequests' = 0
  /\ conn' = [c \in Conns |-> NoConn]
  /\ ClientInfo' = << >>
  /\ muxConn' = 0
  /\ muxTog' = FALSE
  /\ muxTakenAt' = FALSE
  /\ listenConn' = 0
  /\ inReq' = {}
  /\ dirErr' = FALSE
  /\ lastToggle' = FALSE
  /\ waitSet' = [t \in Shutters |-> {}]
  /\ UNCHANGED <<registerOnBoot, calls, callsLeft>>

Call(op) == calls' = [calls EXCEPT ![op] = @ + 1]

\* ---- Start (lines 145-181) ----------------------------------------------

\* lines 146-155: bindWait.Add(1); go listen; go watchSignals; make doneChan
StartSpawn ==
  /\ Alive /\ pc["main"] = "start"
  /\ bindWait' = bindWait + 1
  /\ doneChan' = 0
  /\ pc' = [pc EXCEPT !["main"] = "bindWait", !["listen"] = "bind",
                      !["sig"] = "idle"]
  /\ UNCHANGED <<registerOnBoot, Registered, shuttingDown, doneGroup,
                 activeRequests, conn, ClientInfo, muxConn, muxTog,
                 muxTakenAt, listenConn, inReq, dirErr, calls, callsLeft,
                 lastToggle, waitSet>>

\* line 158: bindWait.Wait()
BindWaitSkipped == TRUE

BindWaitOver == bindWait = 0

\* lines 158-167: bindWait.Wait(); doneGroup = 1; go mux
StartBindWait ==
  /\ Alive /\ pc["main"] = "bindWait"
  /\ BindWaitOver
  /\ doneGroup' = 1
  /\ pc' = [pc EXCEPT !["main"] = "add", !["mux"] = "select"]
  /\ UNCHANGED <<registerOnBoot, Registered, shuttingDown, bindWait, doneChan,
                 activeRequests, conn, ClientInfo, muxConn, muxTog,
                 muxTakenAt, listenConn, inReq, dirErr, calls, callsLeft,
                 lastToggle, waitSet>>

\* lines 169-172: directory Add, an error is only logged
\* lines 174-176: if register, Register() (a send on registeredChan)
StartAdd ==
  /\ Alive /\ pc["main"] = "add"
  /\ Call("Add")
  /\ pc' = [pc EXCEPT !["main"] = IF registerOnBoot THEN "sendRegister"
                                                     ELSE "started"]
  /\ UNCHANGED <<registerOnBoot, Registered, shuttingDown, bindWait,
                 doneGroup, doneChan, activeRequests, conn, ClientInfo,
                 muxConn, muxTog, muxTakenAt, listenConn, inReq, dirErr,
                 callsLeft, lastToggle, waitSet>>

\* lines 178-180: go Delegate.Started(s); return the handle
StartStarted ==
  /\ Alive /\ pc["main"] = "started"
  /\ Call("Started")
  /\ pc' = [p \in Procs |-> IF p = "main" THEN "waiting"
                            ELSE IF p \in Callers \cup Closers THEN "idle"
                            ELSE pc[p]]
  /\ UNCHANGED <<registerOnBoot, Registered, shuttingDown, bindWait,
                 doneGroup, doneChan, activeRequests, conn, ClientInfo,
                 muxConn, muxTog, muxTakenAt, listenConn, inReq, dirErr,
                 callsLeft, lastToggle, waitSet>>

\* The caller of Start waits on the returned handle: done.Wait()
HandleWait ==
  /\ Alive /\ pc["main"] = "waiting"
  /\ doneGroup = 0
  /\ pc' = [pc EXCEPT !["main"] = "released"]
  /\ UNCHANGED <<registerOnBoot, Registered, shuttingDown, bindWait,
                 doneGroup, doneChan, activeRequests, conn, ClientInfo,
                 muxConn, muxTog, muxTakenAt, listenConn, inReq, dirErr,
                 calls, callsLeft, lastToggle, waitSet>>

\* ---- listen (lines 191-212) ---------------------------------------------

\* lines 193-203: bind; panic on error; bindWait.Done()
ListenBind ==
  /\ Alive /\ pc["listen"] = "bind"
  /\ \E ok \in BOOLEAN :
       IF ok
       THEN /\ bindWait' = bindWait - 1
            /\ pc' = [pc EXCEPT !["listen"] = "accept"]
            /\ UNCHANGED <<registerOnBoot, Registered, shuttingDown, doneGroup,
                           doneChan, activeRequests, conn, ClientInfo, muxConn,
                           muxTog, muxTakenAt, listenConn, inReq, dirErr,
                           calls, callsLeft, lastToggle, waitSet>>
       ELSE Panic("bindPanic")

\* lines 206-210: AcceptTCP; panic on error; then the send on connectionChan
ListenAccept ==
  /\ Alive /\ pc["listen"] = "accept"
  /\ \E ok \in BOOLEAN :
       IF ok
       THEN /\ \E c \in Conns :
                 /\ conn[c].state = "none"
                 /\ \A d \in Conns : d < c => conn[d].state # "none"
                 /\ conn' = [conn EXCEPT ![c].state = "pending"]
                 /\ listenConn' = c
            /\ pc' = [pc EXCEPT !["listen"] = "sendConn"]
            /\ UNCHANGED <<registerOnBoot, Registered, shuttingDown, bindWait,
                           doneGroup, doneChan, activeRequests, ClientInfo,
                           muxConn, muxTog, muxTakenAt, inReq, dirErr, calls,
                           callsLeft, lastToggle, waitSet>>
       ELSE Panic("acceptPanic")

\* ---- mux (lines 216-272) ------------------------------------------------

\* lines 220-227 without the insertion of line 226
MuxTakeConnNoInsert ==
  /\ Alive /\ pc["mux"] = "select" /\ pc["listen"] = "sendConn"
  /\ LET c == listenConn
         clientID == UUID
     IN /\ conn' = [conn EXCEPT ![c].state = "accepted",
                                ![c].clientID = clientID]
        /\ muxConn' = c
        /\ muxTakenAt' = lastToggle
  /\ listenConn' = 0
  /\ pc' = [pc EXCEPT !["mux"] = "encode", !["listen"] = "accept"]
  /\ UNCHANGED <<registerOnBoot, Registered, shuttingDown, bindWait,
                 doneGroup, doneChan, activeRequests, muxTog, inReq, dirErr,
                 calls, callsLeft, lastToggle, waitSet, ClientInfo>>

\* lines 220-227: take a connection from connectionChan, generate its client
\* id and insert it into the client registry
MuxTakeConn ==
  /\ Alive /\ pc["mux"] = "select" /\ pc["listen"] = "sendConn"
  /\ LET c == listenConn
         clientID == UUID
     IN /\ ClientInfo' = (clientID :> c) @@ ClientInfo
        /\ conn' = [conn EXCEPT ![c].state = "accepted",
                                ![c].clientID = clientID]
        /\ muxConn' = c
        /\ muxTakenAt' = lastToggle
  /\ listenConn' = 0
  /\ pc' = [pc EXCEPT !["mux"] = "encode", !["listen"] = "accept"]
  /\ UNCHANGED <<registerOnBoot, Registered, shuttingDown, bindWait,
                 doneGroup, doneChan, activeRequests, muxTog, inReq, dirErr,
                 calls, callsLeft, lastToggle, waitSet>>

\* line 231: the Registered field of the server handshake
HandshakeNeverRegistered == FALSE

HandshakeRegistered == Registered

\* line 240: the test that rejects a connection
RejectNever == FALSE

RejectConn == ~Registered

\* lines 229-243 with a send error that ends the loop instead of the handling
MuxEncodeFatal ==
  /\ Alive /\ pc["mux"] = "encode"
  /\ \E ok \in BOOLEAN :
       IF ~ok
       THEN /\ conn' = [conn EXCEPT ![muxConn].state = "sendFailed"]
            /\ pc' = [pc EXCEPT !["mux"] = "exited"]
            /\ muxConn' = 0
            /\ muxTakenAt' = FALSE
       ELSE IF RejectConn
       THEN /\ conn' = [conn EXCEPT ![muxConn].state = "rejected",
                                    ![muxConn].hsSent = TRUE,
                                    ![muxConn].hsRegistered = HandshakeRegistered]
            /\ pc' = [pc EXCEPT !["mux"] = "select"]
            /\ muxConn' = 0
            /\ muxTakenAt' = FALSE
       ELSE /\ conn' = [conn EXCEPT ![muxConn].state = "awaiting",
                                    ![muxConn].hsSent = TRUE,
                                    ![muxConn].hsRegistered = HandshakeRegistered]
            /\ pc' = [pc EXCEPT !["mux"] = "decode"]
            /\ UNCHANGED <<muxConn, muxTakenAt>>
  /\ UNCHANGED <<registerOnBoot, Registered, shuttingDown, bindWait,
                 doneGroup, doneChan, activeRequests, ClientInfo, muxTog,
                 listenConn, inReq, dirErr, calls, callsLeft, lastToggle,
                 waitSet>>

\* lines 229-243: send the server handshake; an error ends the handling;
\* close the connection when the service is not registered
MuxEncode ==
  /\ Alive /\ pc["mux"] = "encode"
  /\ \E ok \in BOOLEAN :
       IF ~ok
       THEN /\ conn' = [conn EXCEPT ![muxConn].state = "sendFailed"]
            /\ pc' = [pc EXCEPT !["mux"] = "select"]
            /\ muxConn' = 0
            /\ muxTakenAt' = FALSE
       ELSE IF RejectConn
       THEN /\ conn' = [conn EXCEPT ![muxConn].state = "rejected",
                                    ![muxConn].hsSent = TRUE,
                                    ![muxConn].hsRegistered = HandshakeRegistered]
            /\ pc' = [pc EXCEPT !["mux"] = "select"]
            /\ muxConn' = 0
            /\ muxTakenAt' = FALSE
       ELSE /\ conn' = [conn EXCEPT ![muxConn].state = "awaiting",
                                    ![muxConn].hsSent = TRUE,
                                    ![muxConn].hsRegistered = HandshakeRegistered]
            /\ pc' = [pc EXCEPT !["mux"] = "decode"]
            /\ UNCHANGED <<muxConn, muxTakenAt>>
  /\ UNCHANGED <<registerOnBoot, Registered, shuttingDown, bindWait,
                 doneGroup, doneChan, activeRequests, ClientInfo, muxTog,
                 listenConn, inReq, dirErr, calls, callsLeft, lastToggle,
                 waitSet>>

\* line 249: the test that lets a connection go on to a serving task
DecodeOk(ok) == ok

\* lines 245-257: read the client handshake; on success spawn the serving task
MuxDecode ==
  /\ Alive /\ pc["mux"] = "decode"
  /\ \E ok \in BOOLEAN :
       conn' = [conn EXCEPT ![muxConn].state =
                  IF DecodeOk(ok) THEN "serving" ELSE "readFailed"]
  /\ pc' = [pc EXCEPT !["mux"] = "select"]
  /\ muxConn' = 0
  /\ muxTakenAt' = FALSE
  /\ UNCHANGED <<registerOnBoot, Registered, shuttingDown, bindWait,
                 doneGroup, doneChan, activeRequests, ClientInfo, muxTog,
                 listenConn, inReq, dirErr, calls, callsLeft, lastToggle,
                 waitSet>>

\* The goroutines waiting in a send on registeredChan, and what they send.
Senders == {t \in Procs : pc[t] \in {"sendRegister", "sendUnregister",
                                      "sdUnregister"}}
SendValue(t) == pc[t] = "sendRegister"
AfterSend(t) == IF pc[t] = "sdUnregister" THEN "sdAdd"
                ELSE IF t = "main" THEN "started" ELSE "idle"

\* line 258: receive a toggle; the sender's Register()/Unregister() returns
MuxRecvToggle ==
  /\ Alive /\ pc["mux"] = "select"
  /\ \E t \in Senders :
       /\ muxTog' = SendValue(t)
       /\ pc' = [pc EXCEPT !["mux"] = "toggle", ![t] = AfterSend(t)]
  /\ UNCHANGED <<registerOnBoot, Registered, shuttingDown, bindWait,
                 doneGroup, doneChan, activeRequests, conn, ClientInfo,
                 muxConn, muxTakenAt, listenConn, inReq, dirErr, calls,
                 callsLeft, lastToggle, waitSet>>

\* lines 76-90: register(), run by mux; err is the directory's answer, which
\* is only logged
registerStrict(err) ==
  IF Registered
  THEN UNCHANGED <<Registered, calls, dirErr>>
  ELSE /\ dirErr' = err
       /\ IF err
          THEN /\ UNCHANGED Registered
               /\ calls' = [calls EXCEPT !["Register"] = @ + 1]
          ELSE /\ Registered' = TRUE
               /\ calls' = [calls EXCEPT !["Register"] = @ + 1,
                                         !["Registered"] = @ + 1]

\* lines 76-90 without the test of line 77
registerNoCheck(err) ==
  /\ dirErr' = err
  /\ Registered' = TRUE
  /\ calls' = [calls EXCEPT !["Register"] = @ + 1, !["Registered"] = @ + 1]

register(err) ==
  IF Registered
  THEN UNCHANGED <<Registered, calls, dirErr>>
  ELSE /\ dirErr' = err
       /\ Registered' = TRUE
       /\ calls' = [calls EXCEPT !["Register"] = @ + 1, !["Registered"] = @ + 1]

\* lines 97-111: unregister(), run by mux; err is only logged
unregisterStrict(err) ==
  IF ~Registered
  THEN UNCHANGED <<Registered, calls, dirErr>>
  ELSE /\ dirErr' = err
       /\ IF err
          THEN /\ UNCHANGED Registered
               /\ calls' = [calls EXCEPT !["Unregister"] = @ + 1]
          ELSE /\ Registered' = FALSE
               /\ calls' = [calls EXCEPT !["Unregister"] = @ + 1,
                                         !["Unregistered"] = @ + 1]

unregister(err) ==
  IF ~Registered
  THEN UNCHANGED <<Registered, calls, dirErr>>
  ELSE /\ dirErr' = err
       /\ Registered' = FALSE
       /\ calls' = [calls EXCEPT !["Unregister"] = @ + 1,
                                 !["Unregistered"] = @ + 1]

\* lines 259-263: process the toggle received
MuxToggle ==
  /\ Alive /\ pc["mux"] = "toggle"
  /\ \E err \in BOOLEAN : IF muxTog THEN register(err) ELSE unregister(err)
  /\ lastToggle' = muxTog
  /\ muxTog' = FALSE
  /\ pc' = [pc EXCEPT !["mux"] = "select"]
  /\ UNCHANGED <<registerOnBoot, shuttingDown, bindWait, doneGroup, doneChan,
                 activeRequests, conn, ClientInfo, muxConn, muxTakenAt,
                 listenConn, inReq, callsLeft, waitSet>>

\* lines 264-269 without the drainer of lines 265-268
MuxDoneNoDrain ==
  /\ Alive /\ pc["mux"] = "select"
  /\ doneChan > 0
  /\ doneChan' = doneChan - 1
  /\ pc' = [pc EXCEPT !["mux"] = "returned"]
  /\ UNCHANGED <<registerOnBoot, Registered, shuttingDown, bindWait,
                 doneGroup, activeRequests, conn, ClientInfo, muxConn, muxTog,
                 muxTakenAt, listenConn, inReq, dirErr, calls, callsLeft,
                 lastToggle, waitSet>>

\* lines 264-269 without the break of line 269
MuxDoneStays ==
  /\ Alive /\ pc["mux"] = "select"
  /\ doneChan > 0
  /\ doneChan' = doneChan - 1
  /\ pc' = [pc EXCEPT !["drain"] = "running"]
  /\ UNCHANGED <<registerOnBoot, Registered, shuttingDown, bindWait,
                 doneGroup, activeRequests, conn, ClientInfo, muxConn, muxTog,
                 muxTakenAt, listenConn, inReq, dirErr, calls, callsLeft,
                 lastToggle, waitSet>>

\* lines 264-269: a shutdown signal: start the drainer and leave the loop
MuxDone ==
  /\ Alive /\ pc["mux"] = "select"
  /\ doneChan > 0
  /\ doneChan' = doneChan - 1
  /\ pc' = [pc EXCEPT !["mux"] = "returned", !["drain"] = "running"]
  /\ UNCHANGED <<registerOnBoot, Registered, shuttingDown, bindWait,
                 doneGroup, activeRequests, conn, ClientInfo, muxConn, muxTog,
                 muxTakenAt, listenConn, inReq, dirErr, calls, callsLeft,
                 lastToggle, waitSet>>

\* line 165: mux() has returned: doneGroup.Done()
MuxExit ==
  /\ Alive /\ pc["mux"] = "returned"
  /\ doneGroup' = doneGroup - 1
  /\ pc' = [pc EXCEPT !["mux"] = "exited"]
  /\ UNCHANGED <<registerOnBoot, Registered, shuttingDown, bindWait, doneChan,
                 activeRequests, conn, ClientInfo, muxConn, muxTog,
                 muxTakenAt, listenConn, inReq, dirErr, calls, callsLeft,
                 lastToggle, waitSet>>

\* lines 265-268: the drainer receives and discards a value of doneChan
Drain ==
  /\ Alive /\ pc["drain"] = "running"
  /\ doneChan > 0
  /\ doneChan' = doneChan - 1
  /\ UNCHANGED <<pc, registerOnBoot, Registered, shuttingDown, bindWait,
                 doneGroup, activeRequests, conn, ClientInfo, muxConn, muxTog,
                 muxTakenAt, listenConn, inReq, dirErr, calls, callsLeft,
                 lastToggle, waitSet>>

\* ---- the public triggers (lines 72-74, 93-95) ---------------------------

\* Register() that sets the flag itself before it sends
CallRegisterDirect(t) ==
  /\ Alive /\ pc[t] = "idle" /\ callsLeft > 0
  /\ callsLeft' = callsLeft - 1
  /\ Registered' = TRUE
  /\ pc' = [pc EXCEPT ![t] = "sendRegister"]
  /\ UNCHANGED <<registerOnBoot, shuttingDown, bindWait,
                 doneGroup, doneChan, activeRequests, conn, ClientInfo,
                 muxConn, muxTog, muxTakenAt, listenConn, inReq, dirErr,
                 calls, lastToggle, waitSet>>

\* Register(): s.registeredChan <- true; the caller waits in the send
CallRegister(t) ==
  /\ Alive /\ pc[t] = "idle" /\ callsLeft > 0
  /\ callsLeft' = callsLeft - 1
  /\ pc' = [pc EXCEPT ![t] = "sendRegister"]
  /\ UNCHANGED <<registerOnBoot, Registered, shuttingDown, bindWait,
                 doneGroup, doneChan, activeRequests, conn, ClientInfo,
                 muxConn, muxTog, muxTakenAt, listenConn, inReq, dirErr,
                 calls, lastToggle, waitSet>>

\* Unregister(): s.registeredChan <- false; the caller waits in the send
CallUnregister(t) ==
  /\ Alive /\ pc[t] = "idle" /\ callsLeft > 0
  /\ callsLeft' = callsLeft - 1
  /\ pc' = [pc EXCEPT ![t] = "sendUnregister"]
  /\ UNCHANGED <<registerOnBoot, Registered, shuttingDown, bindWait,
                 doneGroup, doneChan, activeRequests, conn, ClientInfo,
                 muxConn, muxTog, muxTakenAt, listenConn, inReq, dirErr,
                 calls, lastToggle, waitSet>>

\* lines 114-117: an external caller calls Shutdown(), which reads
\* s.shuttingDown and returns when it is set
CallShutdown(t) ==
  /\ Alive /\ pc[t] = "idle" /\ callsLeft > 0
  /\ callsLeft' = callsLeft - 1
  /\ pc' = [pc EXCEPT ![t] = IF shuttingDown THEN "idle" ELSE "sdSet"]
  /\ UNCHANGED <<registerOnBoot, Registered, shuttingDown, bindWait,
                 doneGroup, doneChan, activeRequests, conn, ClientInfo,
                 muxConn, muxTog, muxTakenAt, listenConn, inReq, dirErr,
                 calls, lastToggle, waitSet>>

\* lines 114-117: a further goroutine calls Shutdown(), which reads
\* s.shuttingDown and returns when it is set
CloserShutdown(t) ==
  /\ Alive /\ pc[t] = "idle"
  /\ pc' = [pc EXCEPT ![t] = IF shuttingDown THEN "idle" ELSE "sdSet"]
  /\ UNCHANGED <<registerOnBoot, Registered, shuttingDown, bindWait,
                 doneGroup, doneChan, activeRequests, conn, ClientInfo,
                 muxConn, muxTog, muxTakenAt, listenConn, inReq, dirErr,
                 calls, callsLeft, lastToggle, waitSet>>

\* ---- watchSignals (lines 274-289) ---------------------------------------

\* lines 279-285, 114-117: a termination signal arrives: the watcher calls
\* Shutdown(), which reads s.shuttingDown and returns when it is set
Signal ==
  /\ Alive /\ pc["sig"] = "idle"
  /\ pc' = [pc EXCEPT !["sig"] = IF shuttingDown THEN "idle" ELSE "sdSet"]
  /\ UNCHANGED <<registerOnBoot, Registered, shuttingDown, bindWait,
                 doneGroup, doneChan, activeRequests, conn, ClientInfo,
                 muxConn, muxTog, muxTakenAt, listenConn, inReq, dirErr,
                 calls, callsLeft, lastToggle, waitSet>>

\* ---- Shutdown (lines 114-137) -------------------------------------------

\* lines 119-121: s.shuttingDown = true; then Unregister(), a send on
\* registeredChan
SdSet(t) ==
  /\ Alive /\ pc[t] = "sdSet"
  /\ shuttingDown' = TRUE
  /\ pc' = [pc EXCEPT ![t] = "sdUnregister"]
  /\ UNCHANGED <<registerOnBoot, Registered, bindWait, doneGroup, doneChan,
                 activeRequests, conn, ClientInfo, muxConn, muxTog,
                 muxTakenAt, listenConn, inReq, dirErr, calls, callsLeft,
                 lastToggle, waitSet>>

\* line 123: s.doneGroup.Add(1)
SdAdd(t) ==
  /\ Alive /\ pc[t] = "sdAdd"
  /\ doneGroup' = doneGroup + 1
  /\ pc' = [pc EXCEPT ![t] = "sdSend"]
  /\ UNCHANGED <<registerOnBoot, Registered, shuttingDown, bindWait, doneChan,
                 activeRequests, conn, ClientInfo, muxConn, muxTog,
                 muxTakenAt, listenConn, inReq, dirErr, calls, callsLeft,
                 lastToggle, waitSet>>

\* line 125: s.doneChan <- true; waits while the buffer is full
SdSend(t) ==
  /\ Alive /\ pc[t] = "sdSend"
  /\ doneChan < DoneChanCap
  /\ doneChan' = doneChan + 1
  /\ waitSet' = [waitSet EXCEPT ![t] = inReq]
  /\ pc' = [pc EXCEPT ![t] = "sdWait"]
  /\ UNCHANGED <<registerOnBoot, Registered, shuttingDown, bindWait,
                 doneGroup, activeRequests, conn, ClientInfo, muxConn, muxTog,
                 muxTakenAt, listenConn, inReq, dirErr, calls, callsLeft,
                 lastToggle>>

\* line 127: s.activeRequests.Wait()
RequestsNotAwaited == TRUE

RequestsOver == activeRequests = 0

\* lines 127-132: wait for the requests in flight; then directory Remove,
\* whose error is only logged
SdWait(t) ==
  /\ Alive /\ pc[t] = "sdWait"
  /\ RequestsOver
  /\ Call("Remove")
  /\ pc' = [pc EXCEPT ![t] = "sdStopped"]
  /\ UNCHANGED <<registerOnBoot, Registered, shuttingDown, bindWait,
                 doneGroup, doneChan, activeRequests, conn, ClientInfo,
                 muxConn, muxTog, muxTakenAt, listenConn, inReq, dirErr,
                 callsLeft, lastToggle, waitSet>>

\* lines 134-137: s.Delegate.Stopped(s); s.doneGroup.Done(); Shutdown()
\* returns
SdStopped(t) ==
  /\ Alive /\ pc[t] = "sdStopped"
  /\ Call("Stopped")
  /\ doneGroup' = doneGroup - 1
  /\ waitSet' = [waitSet EXCEPT ![t] = {}]
  /\ pc' = [pc EXCEPT ![t] = "idle"]
  /\ UNCHANGED <<registerOnBoot, Registered, shuttingDown, bindWait, doneChan,
                 activeRequests, conn, ClientInfo, muxConn, muxTog,
                 muxTakenAt, listenConn, inReq, dirErr, callsLeft, lastToggle>>

\* ---- the serving tasks (lines 255-257) ----------------------------------

\* A request arrives on a served connection: activeRequests.Add(1)
RequestBegin(c) ==
  /\ Alive /\ conn[c].state = "serving" /\ c \notin inReq
  /\ inReq' = inReq \cup {c}
  /\ activeRequests' = activeRequests + 1
  /\ UNCHANGED <<pc, registerOnBoot, Registered, shuttingDown, bindWait,
                 doneGroup, doneChan, conn, ClientInfo, muxConn, muxTog,
                 muxTakenAt, listenConn, dirErr, calls, callsLeft, lastToggle,
                 waitSet>>

\* The request is answered: activeRequests.Done()
RequestEnd(c) ==
  /\ Alive /\ c \in inReq
  /\ inReq' = inReq \ {c}
  /\ activeRequests' = activeRequests - 1
  /\ waitSet' = [t \in Shutters |->
                   IF c \in waitSet[t] THEN (waitSet[t] \ {c}) \cup {0}
                                       ELSE waitSet[t]]
  /\ UNCHANGED <<pc, registerOnBoot, Registered, shuttingDown, bindWait,
                 doneGroup, doneChan, conn, ClientInfo, muxConn, muxTog,
                 muxTakenAt, listenConn, dirErr, calls, callsLeft, lastToggle>>

\* The client closes its connection: ServeCodec returns
ServeEnd(c) ==
  /\ Alive /\ conn[c].state = "serving" /\ c \notin inReq
  /\ conn' = [conn EXCEPT ![c].state = "closed"]
  /\ UNCHANGED <<pc, registerOnBoot, Registered, shuttingDown, bindWait,
                 doneGroup, doneChan, activeRequests, ClientInfo, muxConn,
                 muxTog, muxTakenAt, listenConn, inReq, dirErr, calls,
                 callsLeft, lastToggle, waitSet>>

Next ==
  \/ StartSpawn \/ StartBindWait \/ StartAdd \/ StartStarted \/ HandleWait
  \/ ListenBind \/ ListenAccept
  \/ MuxTakeConn \/ MuxEncode \/ MuxDecode
  \/ MuxRecvToggle \/ MuxToggle \/ MuxDone \/ MuxExit \/ Drain
  \/ Signal
  \/ \E t \in Callers : CallRegister(t) \/ CallUnregister(t) \/ CallShutdown(t)
  \/ \E t \in Shutters : \/ SdSet(t) \/ SdAdd(t) \/ SdSend(t)
                        \/ SdWait(t) \/ SdStopped(t)
  \/ \E c \in Conns : RequestBegin(c) \/ RequestEnd(c) \/ ServeEnd(c)

Spec == Init /\ [][Next]_vars

\* Spec has two goroutines that can run Shutdown(): the signal watcher and
\* the external caller.  NextLive adds a third, so that a send on doneChan
\* can find the buffer full after mux has left its loop.
NextLive ==
  \/ Next
  \/ \E t \in Closers : CloserShutdown(t)

\* The Go scheduler runs every goroutine that can run: the drainer receives
\* from doneChan when it holds a value, and a Shutdown() waiting in its send on
\* doneChan sends when the buffer has room.  Nothing is assumed of the
\* clients, the callers, the signals or the directory.
LiveSpec ==
  /\ Init /\ [][NextLive]_vars
  /\ WF_vars(Drain)
  /\ \A t \in Shutters : WF_vars(SdSend(t))

\* ---- properties ----------------------------------------------------------

ShutdownPcs == {"sdSet", "sdUnregister", "sdAdd", "sdSend", "sdWait",
                "sdStopped"}
AfterWaitPcs == {"sdStopped"}
MuxGone == pc["mux"] \in {"returned", "exited"}
Bound == pc["listen"] \in {"accept", "sendConn", "acceptPanic"}

\* C1: the registered value mux sends in a connection's server handshake is
\* the value of the last toggle mux finished processing before it took the
\* connection (false when it has processed none).
C1_HandshakeSeesLastToggle ==
  [][\A c \in Conns :
       (conn'[c].hsSent /\ ~conn[c].hsSent)
          => /\ muxConn = c
             /\ conn'[c].hsRegistered = muxTakenAt]_vars

\* Start(false): the first connection was handled before the first Register()
\* was processed and rejected, the second after it and served.
C1_Witness ==
  /\ ~registerOnBoot
  /\ conn[1].hsSent /\ ~conn[1].hsRegistered /\ conn[1].state = "rejected"
  /\ conn[2].hsSent /\ conn[2].hsRegistered /\ conn[2].state = "serving"

\* C2: however the Shutdown() calls of the watcher and of external callers
\* interleave, the shutdown sequence runs once: directory Remove is called
\* and the Stopped callback invoked at most once.
C2_ShutdownRunsOnce ==
  /\ calls["Remove"] <= 1
  /\ calls["Stopped"] <= 1

\* C3 as stated: Shutdown() calls directory Remove, invokes Stopped and
\* releases the handle only when no serving task spawned by mux is running.
C3_WaitsForServingTasks ==
  [][(\/ calls'["Remove"] > calls["Remove"]
      \/ calls'["Stopped"] > calls["Stopped"]
      \/ \E t \in Shutters : pc[t] = "sdStopped" /\ pc'[t] = "idle")
       => \A c \in Conns : conn[c].state # "serving"]_vars

\* C3 as amended: a Shutdown() that is past its wait (at directory Remove,
\* Stopped or the release of the handle) has seen every request that was in
\* flight when it began to wait answered.
C3_WaitsForRequests ==
  \A t \in Shutters :
    pc[t] \in AfterWaitPcs => waitSet[t] \cap Conns = {}

\* A Shutdown() is past its wait, a request was in flight when it began to
\* wait, and the serving task of that request is still running.
C3_Witness ==
  \E t \in Shutters : \E c \in Conns :
    /\ pc[t] \in AfterWaitPcs
    /\ 0 \in waitSet[t]
    /\ conn[c].state = "serving"

\* C4: the steps of Shutdown() happen in order; in particular the directory
\* Unregister call and the Unregistered callback are never made once directory
\* Remove has been called or Stopped invoked.
C4_UnregisterBeforeRemove ==
  [][(calls["Remove"] > 0 \/ calls["Stopped"] > 0)
       => /\ calls'["Unregister"] = calls["Unregister"]
          /\ calls'["Unregistered"] = calls["Unregistered"]]_vars

\* C5: no caller of Register(), Unregister() or Shutdown() waits for the
\* actor: none is inside its send on registeredChan when mux has left its
\* loop, where no receiver will ever come.
C5_NoCallerBlocked ==
  \A t \in Shutters : ~(t \in Senders /\ MuxGone)

C7_RegisteredIsServed ==
  [][Alive' => \A c \in Conns :
       /\ (pc["mux"] = "encode" /\ muxConn = c /\ Registered
           /\ conn'[c] # conn[c])
            => \/ /\ conn'[c].state = "awaiting"
                  /\ conn'[c].hsSent /\ conn'[c].hsRegistered
                  /\ conn'[c].clientID # 0
                  /\ pc'["mux"] = "decode"
               \/ conn'[c].state = "sendFailed" /\ ~conn'[c].hsSent
       /\ (conn[c].state = "awaiting" /\ conn'[c] # conn[c])
            => /\ pc["mux"] = "decode" /\ muxConn = c
               /\ conn'[c].state \in {"serving", "readFailed"}
       /\ (conn'[c].state = "serving" /\ conn[c].state # "serving")
            => /\ conn[c].state = "awaiting"
               /\ conn[c].hsSent /\ conn[c].hsRegistered
               /\ conn[c].clientID # 0
       /\ conn[c].state \in {"awaiting", "serving"}
            => conn[c].hsSent /\ conn[c].hsRegistered]_vars

\* A connection handled while the flag was true is with its serving task.
C7_Witness ==
  \E c \in Conns : /\ conn[c].state = "serving"
                   /\ conn[c].hsSent /\ conn[c].hsRegistered
                   /\ conn[c].clientID # 0

\* C8: the handle's counter is never negative, a waiter on the handle is
\* released only after mux has exited and a Shutdown() has called directory
\* Remove and Stopped, and the counter is never zero while a Shutdown() is in
\* progress.
C8_HandleAfterShutdown ==
  /\ doneGroup >= 0
  /\ pc["main"] = "released"
       => pc["mux"] = "exited" /\ calls["Remove"] > 0 /\ calls["Stopped"] > 0
  /\ (pc["mux"] \notin {"notStarted", "dead"} /\ doneGroup = 0)
       => \A t \in Shutters : pc[t] \notin ShutdownPcs

\* C9: every directory Register call of mux, failing or not, is followed in
\* the same step by the flag set to true and the Registered callback, and
\* every directory Unregister call by the flag set to false and the
\* Unregistered callback.
C9_OptimisticRegistration ==
  [][/\ calls'["Register"] # calls["Register"]
          => /\ Registered'
             /\ calls'["Registered"] = calls["Registered"] + 1
     /\ calls'["Unregister"] # calls["Unregister"]
          => /\ ~Registered'
             /\ calls'["Unregistered"] = calls["Unregistered"] + 1]_vars

\* The directory's Register call failed and the service is registered, its
\* Registered callback invoked.
C9_Witness ==
  /\ dirErr /\ lastToggle /\ Registered
  /\ calls["Register"] = 1 /\ calls["Registered"] = 1
  /\ calls["Unregister"] = 0

\* C10: directory Add, the toggle sent by Start(true), the start of mux and
\* the Started callback happen only after the listener is bound; when the
\* bind fails the process ends and none of them happens.
C10_VisibleAfterBind ==
  (\/ calls["Add"] > 0
   \/ calls["Started"] > 0
   \/ pc["mux"] \notin {"notStarted", "dead"}
   \/ pc["main"] \notin {"start", "bindWait", "dead"}
   \/ muxTog \/ Registered)
    => Bound

\* Start(true) has returned: the listener is bound, the service added,
\* registered and started.
C10_Witness ==
  /\ registerOnBoot /\ Bound
  /\ calls["Add"] = 1 /\ calls["Started"] = 1
  /\ Registered /\ pc["mux"] = "select"

\* C11: once mux has received a shutdown signal and left its loop, every
\* Shutdown() that is at its send on doneChan eventually gets past it: the
\* drainer receives and discards what mux no longer does.
C11_DoneSendCompletes ==
  \A t \in Shutters :
    (pc[t] = "sdSend" /\ MuxGone) ~> (pc[t] # "sdSend")

\* Three Shutdown() have sent on doneChan; mux took one value and left, the
\* buffer holds only one, so the drainer discarded at least one of the others.
C11_Witness ==
  /\ pc["drain"] = "running" /\ MuxGone
  /\ doneChan = 0
  /\ calls["Stopped"] = 3

\* C12: whatever one client does, mux still takes every other pending
\* connection and every pending toggle: mux never waits for a client while
\* a connection or a toggle is waiting for mux.
C12_ClientCannotStallMux ==
  ~(/\ pc["mux"] = "decode"
    /\ (Senders # {} \/ pc["listen"] = "sendConn"))

FailedStates == {"sendFailed", "readFailed"}

\* C13: a step in which the send of the server handshake or the read of the
\* client handshake fails changes that connection only: the registration and
\* shutdown flags, the other connections, the directory calls and callbacks
\* are as before, and mux is back at its select with no connection in hand;
\* a connection whose handshake failed is never given a serving task.
C13_ErrorAbortsOnlyThatConn ==
  [][Alive' =>
       \A c \in Conns :
         /\ (conn[c].state \notin FailedStates
             /\ conn'[c].state \in FailedStates)
            => /\ Registered' = Registered
               /\ shuttingDown' = shuttingDown
               /\ calls' = calls
               /\ \A d \in Conns \ {c} : conn'[d] = conn[d]
               /\ pc'["mux"] = "select" /\ muxConn' = 0
               /\ pc'["drain"] = pc["drain"]
               /\ c \notin inReq'
         /\ conn[c].state \in FailedStates => conn'[c] = conn[c]]_vars

\* The handshake of the first connection failed; mux then served the second
\* connection and, after that, received the shutdown signal.
C13_Witness ==
  /\ conn[1].state \in FailedStates
  /\ conn[2].state = "serving"
  /\ MuxGone

\* C14: a toggle with the value the flag already has makes no directory call
\* and no callback and leaves the flag as it is, so the directory Register
\* call and the Registered callback happen once per change of the flag to
\* true, the directory Unregister call and the Unregistered callback once per
\* change to false: the counts are equal in pairs, and the Register calls are
\* one ahead of the Unregister calls exactly while the flag is true.
C14_CallsOnlyOnTransitions ==
  Alive =>
    /\ calls["Register"] = calls["Registered"]
    /\ calls["Unregister"] = calls["Unregistered"]
    /\ calls["Register"] - calls["Unregister"] = (IF Registered THEN 1 ELSE 0)

\* Start(true) and the caller's one call have both returned with no shutdown
\* begun and no Unregister made: the call was Register(), so mux processed
\* two toggles of true, the second with the flag already true.
C14_Witness ==
  /\ registerOnBoot /\ pc["main"] \in {"started", "waiting"}
  /\ callsLeft = 0 /\ pc["c1"] = "idle"
  /\ ~shuttingDown /\ pc["sig"] = "idle"
  /\ pc["mux"] = "select" /\ lastToggle
  /\ Registered
  /\ calls["Register"] = 1 /\ calls["Unregister"] = 0

\* C15: the registration flag changes only in the step in which mux processes
\* a toggle it has received, and to the value of that toggle; while mux
\* processes a toggle it has no connection in hand, so a transition never
\* overlaps a handshake, and mux being one goroutine there is never more than
\* one in progress.
C15_OnlyMuxTogglesFlag ==
  [][Alive' =>
       /\ Registered' # Registered
          => /\ pc["mux"] = "toggle" /\ pc'["mux"] = "select"
             /\ Registered' = muxTog
             /\ \A p \in Procs \ {"mux"} : pc'[p] = pc[p]
             /\ conn' = conn
       /\ pc["mux"] = "toggle" => muxConn = 0]_vars

\* The flag was set and cleared again by two toggles, with a handshake that
\* saw it set in between, and the caller's Unregister() has returned.
C15_Witness ==
  /\ ~Registered /\ calls["Register"] = 1 /\ calls["Unregister"] = 1
  /\ conn[1].state = "serving"
  /\ pc["c1"] = "idle" /\ callsLeft = 0 /\ ~shuttingDown

\* The connections mux has taken from connectionChan.
Taken == {c \in Conns : conn[c].state \notin {"none", "pending"}}

\* C16: every connection mux has taken, the one whose handshake is not yet
\* sent included and whatever became of it, has its own entry in the client
\* registry under its own identifier; the registry has no other entry, so
\* its size is the number of connections mux has handled.
C16_RegistryMatchesTaken ==
  Alive =>
    /\ Cardinality(DOMAIN ClientInfo) = Cardinality(Taken)
    /\ \A c \in Taken : /\ conn[c].clientID \in DOMAIN ClientInfo
                        /\ ClientInfo[conn[c].clientID] = c
    /\ \A c, d \in Taken : c # d => conn[c].clientID # conn[d].clientID

\* mux has taken two connections: one it rejected or whose handshake failed,
\* and one it handed to a serving task.
C16_Witness ==
  /\ \E c \in Conns : conn[c].state \in {"rejected", "sendFailed", "readFailed"}
  /\ \E c \in Conns : conn[c].state \in {"serving", "closed"}
  /\ Cardinality(DOMAIN ClientInfo) = 2

\* mux has processed a shutdown signal: it started the drainer in that step
ShutdownProcessed == pc["drain"] = "running"

\* C17: shuttingDown never goes back to false; and once mux has processed a
\* shutdown signal it is out of its loop for good: no connection is taken,
\* sent a handshake or given a serving task, no toggle is received or
\* processed, the registration flag and the directory and callback counts of
\* registration stay as they are.  The only changes to connections are the
\* listener accepting one and a serving task ending.
C17_ShutdownIsFinal ==
  [][Alive' =>
       /\ shuttingDown => shuttingDown'
       /\ ShutdownProcessed
          => /\ ShutdownProcessed' /\ MuxGone /\ MuxGone'
             /\ Registered' = Registered
             /\ lastToggle' = lastToggle /\ muxTog' = muxTog
             /\ ClientInfo' = ClientInfo
             /\ \A op \in {"Register", "Unregister", "Registered",
                           "Unregistered"} : calls'[op] = calls[op]
             /\ \A t \in Senders : pc'[t] = pc[t]
             /\ \A c \in Conns :
                  \/ conn'[c] = conn[c]
                  \/ conn[c].state = "none" /\ conn'[c].state = "pending"
                  \/ conn[c].state = "serving" /\ conn'[c].state = "closed"]_vars

\* mux has left its loop and Shutdown() has run to its end, while a serving
\* task spawned earlier is still answering a request.
C17_Witness ==
  /\ ShutdownProcessed /\ shuttingDown
  /\ calls["Stopped"] >= 1
  /\ \E c \in Conns : conn[c].state = "serving" /\ c \in inReq

\* mux has processed the unregister toggle of a Shutdown(): that Shutdown()
\* is past its Unregister() and mux is not processing a toggle
ShutdownUnregistered ==
  /\ pc["mux"] # "toggle"
  /\ \/ \E t \in Shutters : pc[t] \in {"sdAdd", "sdSend", "sdWait", "sdStopped"}
     \/ calls["Stopped"] > 0

\* C18: once mux has processed the unregister toggle sent by Shutdown(), the
\* registration flag is false, and it is false when the handle is released.
C18_StaysUnregistered ==
  Alive => /\ ShutdownUnregistered => ~Registered
           /\ pc["main"] = "released" => ~Registered

\* C19: Start() returns once the listener is bound: it is never left in its
\* Register(), waiting to send on registeredChan, after mux has left its loop.
C19_StartReturns ==
  ~(pc["main"] = "sendRegister" /\ MuxGone)

\* C20: no accepted connection is left open and unowned: mux ends every
\* connection it takes closed or in the hands of a serving task, a
\* connection whose handshake failed included, and no connection the
\* listener accepted waits for a mux that has left its loop.
C20_NoConnLeftOpen ==
  Alive =>
    /\ \A c \in Conns : conn[c].state \notin {"sendFailed", "readFailed"}
    /\ ~(pc["listen"] = "sendConn" /\ MuxGone)
====
